---------------------------- MODULE Spec2Model ----------------------------
(***************************************************************************)
(* Model of the MOOC course-progress tracker: the express/sqlite server    *)
(* of src/server.js (identity issuer, credential validator, progress and   *)
(* draft store) and the MOOCApp browser client (save scheduler and         *)
(* navigation controller; src/public/app.js, and its later revision that   *)
(* follows the server code in src/server.js).                              *)
(*                                                                         *)
(* Two specifications share the handlers of the server:                    *)
(*   Spec        the HTTP API called directly by arbitrary callers;        *)
(*   SpecClient  one MOOCApp instance talking to the server over a         *)
(*               network that may reorder requests and responses.          *)
(***************************************************************************)
EXTENDS Integers, Sequences, FiniteSets, TLC

VARIABLES
    users,      \* table users: set of rows [id, username, last_task]
    texts,      \* table texts: sequence of rows, position = AUTOINCREMENT id
    progress,   \* table progress: set of rows [user_id, task_id, completed]
    okSaved,    \* history: <<user, task, content>> of the latest saveDraft answered 200, per key
    okDone,     \* history: set of <<user, task>> whose completeTask was answered 200
    trespass,   \* history: a call changed rows of a learner whose credential it did not carry
    registered, \* history: <<username, userId>> of every register answered 200
    \* the browser (MOOCApp, localStorage and the page)
    screen,     \* the screen shown: "welcome" or "course"
    mooc_token, \* localStorage item mooc_token
    currentUser,
    currentTask,
    editor,     \* value of #text-editor
    saveStatus, \* class of #save-status
    progressFill, \* width of #progress-fill: <<completed, of>> for completed / of * 100 %
    saveTimer,  \* this.saveTimer: the handle of the timeout made last (0: null)
    armed,      \* handles of the scheduleAutoSave timeouts that have not fired
    advance,    \* number of completeTask timeouts that have not fired
    acts,       \* async calls suspended at an await of a fetch
    \* the network and the server's handlers in progress
    reqs,       \* requests on their way to the server
    resps,      \* responses on their way to the browser
    pend,       \* GET /api/user/progress handlers between their two queries
    \* history of the browser
    events,     \* number of user events on the course screen so far
    burst,      \* the input events that followed one another with no other browser step
                \* between them, and the requests made by the timeout that ended them
    unsent,     \* <<task, content, left>>: an edit whose content no save has carried since;
                \* left: the task was switched away from while the edit's timeout was armed
    lastIssued, \* <<task, content>> of the save issued last, per task
    failed,     \* tasks with a save that was not answered 200
    origin,     \* the task whose draft was loaded into the editor, or that was active
                \* when the editor's text was typed (0: the text of the page as served)
    refused,    \* a draft load, a last-task update or a progress load of the client was
                \* not answered 200
    faults      \* number of failures so far: database errors, lost messages, an expired token

dbVars == <<users, texts, progress>>
histVars == <<okSaved, okDone, trespass, registered>>
pageVars == <<screen, mooc_token, currentUser, currentTask, editor, saveStatus, progressFill>>
timerVars == <<saveTimer, armed, advance>>
netVars == <<reqs, resps, pend>>
ghostVars == <<events, burst, unsent, lastIssued, failed, origin, refused>>
clientVars == <<pageVars, timerVars, acts, netVars, ghostVars, faults>>
vars == <<dbVars, histVars, clientVars>>

-----------------------------------------------------------------------------
(* Bounds and input sets *)

\* rows the texts table may hold before the model stops accepting saves (Spec)
MaxTextRows == 2

\* user events on the course screen (input, clicks) in a behaviour of SpecClient
MaxEvents == 2

\* failures (database errors, lost requests and responses) in a behaviour of SpecClient
MaxFaults == 1

\* fetches the browser has outstanding at a time in SpecClient
MaxFetches == 2

\* the task count the client hard-codes
TotalTasks == 19

\* :taskId values callers put in the URL
TaskParams == {1, 2}

\* :taskId values of GET /api/tasks/:taskId/text, tasks of the course or not
AnyTaskIds == TaskParams \cup {0, TotalTasks + 1}

\* taskId values callers put in the body of POST /api/user/last-task
BodyTaskIds == {0, 2}

\* draft contents callers send
Contents == {"", "a"}

\* usernames callers send; "" stands for a missing username, "al" is too short,
\* "alice" and "Alice" differ in letter case only
UserNames == {"", "al", "alice", "Alice"}

\* usernames typed into the sign-in form, tasks clicked in the navigation
FormNames == {"al", "alice"}
ClickTasks == {1, 2}

NoUser == 0
None == "<none>"

-----------------------------------------------------------------------------
(* Credentials *)

\* localStorage.getItem('mooc_token') of a missing item: null, sent as "Bearer null"
NullToken == [userId |-> NoUser, signed |-> FALSE, expired |-> FALSE]
\* this.currentUser = null
NullUser == [username |-> None, lastTask |-> 0, progress |-> <<>>]

\* jwt.sign({ userId }, JWT_SECRET, { expiresIn: '30d' }).  A token carries the
\* user id and a signature; whether its 30 days have passed is decided when
\* it is presented.
jwtSign(userId) == [userId |-> userId, signed |-> TRUE, expired |-> FALSE]

\* Authorization headers a caller can send: none, one without a second word,
\* or "Bearer <token>".
NoHeader == [kind |-> "none"]
MalformedHeader == [kind |-> "malformed"]
Bearer(token) == [kind |-> "bearer", token |-> token]

UserIds == {u.id : u \in users}

\* Tokens in existence: the server signs one only in register and login, so
\* only for a registered user; anybody can build an unsigned one for any
\* user id; a signed one may be presented after it has expired.
\* (one unsigned token, naming the second learner, and the first learner's
\* expired token stand for the rest)
ForgedTokens == {[userId |-> 2, signed |-> FALSE, expired |-> FALSE]}
MintedTokens == {[userId |-> u, signed |-> TRUE, expired |-> FALSE] : u \in UserIds}
ExpiredTokens == {[userId |-> u, signed |-> TRUE, expired |-> TRUE] : u \in UserIds \cap {1}}
ValidHeaders == {Bearer(t) : t \in MintedTokens}
InvalidHeaders ==
    {NoHeader, MalformedHeader} \cup {Bearer(t) : t \in ForgedTokens \cup ExpiredTokens}
Headers == ValidHeaders \cup InvalidHeaders

\* The verified user id, or NoUser when the middleware answers 401.
\* A mutant that decodes the token without verifying it.
verifyTokenDecodeOnly(auth) ==
    IF auth.kind # "bearer" THEN NoUser ELSE auth.token.userId

\* A mutant that accepts a signed token whatever its age.
verifyTokenNoExpiry(auth) ==
    IF auth.kind # "bearer" THEN NoUser
    ELSE IF ~auth.token.signed THEN NoUser
    ELSE auth.token.userId

verifyToken(auth) ==
    IF auth.kind # "bearer" THEN NoUser
    ELSE IF ~auth.token.signed \/ auth.token.expired THEN NoUser
    ELSE auth.token.userId

-----------------------------------------------------------------------------
(* SQL statements *)

Db == [users |-> users, texts |-> texts, progress |-> progress]

\* value || 1
OrOne(v) == IF v = 0 THEN 1 ELSE v

\* uuidv4(): an id no row has; ids are opaque, the model numbers them.
uuidv4 == Cardinality(users) + 1

\* SELECT * FROM users WHERE username = ?  (BINARY collation: the strings are
\* equal when their bytes are)
\* A mutant that compares without regard to letter case.
Lower(username) == IF username = "Alice" THEN "alice" ELSE username
UsersByNameNoCase(username) == {u \in users : Lower(u.username) = Lower(username)}

UsersByName(username) == {u \in users : u.username = username}

\* SELECT username, last_task FROM users WHERE id = ?  (undefined: no such row)
Undefined == [id |-> NoUser, username |-> "", last_task |-> 0]
UserById(userId) ==
    IF \E u \in users : u.id = userId THEN CHOOSE u \in users : u.id = userId
    ELSE Undefined

\* username TEXT UNIQUE: the INSERT fails when a row has the same username
\* (compared byte by byte, so letter case counts)
\* A mutant without the constraint.
UniqueConstraintFailedNever(username) == FALSE

UniqueConstraintFailed(username) == UsersByName(username) # {}

\* INSERT INTO users (id, username) VALUES (?, ?); last_task DEFAULT 1
\* A mutant whose column has no default.
InsertUserNoDefault(userId, username) ==
    users \cup {[id |-> userId, username |-> username, last_task |-> 0]}

InsertUser(userId, username) ==
    users \cup {[id |-> userId, username |-> username, last_task |-> 1]}

\* UPDATE users SET last_task = ? WHERE id = ?
\* A mutant without the WHERE clause.
UpdateLastTaskEveryRow(userId, taskId) ==
    {[u EXCEPT !.last_task = taskId] : u \in users}

UpdateLastTask(userId, taskId) ==
    {IF u.id = userId THEN [u EXCEPT !.last_task = taskId] ELSE u : u \in users}

\* INSERT OR REPLACE INTO texts (user_id, task_id, content, updated_at): the
\* only key of texts is its AUTOINCREMENT id, which the statement leaves to
\* the database, so no row ever conflicts and the row is appended.
InsertOrReplaceText(userId, taskId, content) ==
    Append(texts, [user_id |-> userId, task_id |-> taskId, content |-> content])

\* SELECT content FROM texts WHERE user_id = ? AND task_id = ?
\* the matching rows' ids, ascending; db.get delivers the first row of the scan
TextIds(userId, taskId) ==
    {i \in 1..Len(texts) : texts[i].user_id = userId /\ texts[i].task_id = taskId}

MinOf(S) == CHOOSE i \in S : \A j \in S : i <= j

\* A mutant whose WHERE clause leaves out the task.
SelectContentAnyTask(userId, taskId) ==
    IF \A i \in 1..Len(texts) : texts[i].user_id # userId THEN ""
    ELSE texts[MinOf({i \in 1..Len(texts) : texts[i].user_id = userId})].content

SelectContent(userId, taskId) ==
    IF TextIds(userId, taskId) = {} THEN ""
    ELSE texts[MinOf(TextIds(userId, taskId))].content

\* INSERT OR REPLACE INTO progress (user_id, task_id, completed, completion_date)
\* VALUES (?, ?, TRUE, CURRENT_TIMESTAMP); PRIMARY KEY(user_id, task_id): the
\* row with the same key is deleted first.
\* A mutant that flips the flag of an existing row instead of setting it.
InsertOrReplaceProgressToggle(userId, taskId) ==
    LET old == {p \in progress : p.user_id = userId /\ p.task_id = taskId}
        flag == ~(\E p \in old : p.completed)
    IN (progress \ old) \cup {[user_id |-> userId, task_id |-> taskId, completed |-> flag]}

InsertOrReplaceProgress(userId, taskId) ==
    (progress \ {p \in progress : p.user_id = userId /\ p.task_id = taskId})
        \cup {[user_id |-> userId, task_id |-> taskId, completed |-> TRUE]}

\* SELECT task_id, completed FROM progress WHERE user_id = ?
\* (the rows come in primary-key order: a list sorted by task_id)
RECURSIVE SortByTask(_)
SortByTask(rows) ==
    IF rows = {} THEN <<>>
    ELSE LET r == CHOOSE x \in rows : \A y \in rows : x.task_id <= y.task_id
         IN <<r>> \o SortByTask(rows \ {r})

SelectProgress(userId) ==
    SortByTask({[task_id |-> p.task_id, completed |-> p.completed] :
                    p \in {q \in progress : q.user_id = userId}})

-----------------------------------------------------------------------------
(* Route handlers.  Each yields the tables after the request and the        *)
(* response; dbOk says whether the statement it runs succeeds.              *)

Out(u, t, p, r) == [users |-> u, texts |-> t, progress |-> p, res |-> r]
Reply(status, body) == [status |-> status, body |-> body]
Same(r) == Out(users, texts, progress, r)

\* verifyToken's two 401 answers
Unauthorized(auth) ==
    Reply(401, [error |-> IF auth.kind # "bearer" THEN "No token provided"
                          ELSE "Invalid token"])
DatabaseError == Reply(500, [error |-> "Database error"])

\* POST /api/auth/register
PostRegister(username, dbOk) ==
    IF username = "" \/ Len(username) < 3
    THEN Same(Reply(400, [error |-> "Username must be at least 3 characters"]))
    ELSE IF ~dbOk THEN Same(DatabaseError)
    ELSE IF UniqueConstraintFailed(username)
    THEN Same(Reply(409, [error |-> "Username already exists"]))
    ELSE Out(InsertUser(uuidv4, username), texts, progress,
             Reply(200, [token |-> jwtSign(uuidv4), username |-> username,
                         userId |-> uuidv4, lastTask |-> 1]))

\* POST /api/auth/login
\* A mutant that registers the learner it does not find.
PostLoginOrRegister(username, dbOk) ==
    IF ~dbOk THEN Same(DatabaseError)
    ELSE IF UsersByName(username) = {}
    THEN PostRegister(username, dbOk)
    ELSE LET user == CHOOSE u \in UsersByName(username) : TRUE
         IN Same(Reply(200, [token |-> jwtSign(user.id), username |-> user.username,
                             userId |-> user.id, lastTask |-> OrOne(user.last_task)]))

PostLogin(username, dbOk) ==
    IF ~dbOk THEN Same(DatabaseError)
    ELSE IF UsersByName(username) = {}
    THEN Same(Reply(404, [error |-> "User not found"]))
    ELSE LET user == CHOOSE u \in UsersByName(username) : TRUE
         IN Same(Reply(200, [token |-> jwtSign(user.id), username |-> user.username,
                             userId |-> user.id, lastTask |-> OrOne(user.last_task)]))

\* GET /api/user/progress, up to the answer of its first query (db.get):
\* an error response, or the handler waiting for its second query.
ProgressUserFails(auth, dbOk) == verifyToken(auth) = NoUser \/ ~dbOk
ProgressUserError(auth, dbOk) ==
    IF verifyToken(auth) = NoUser THEN Unauthorized(auth) ELSE DatabaseError
ProgressPending(auth, rid) ==
    [userId |-> verifyToken(auth), user |-> UserById(verifyToken(auth)), rid |-> rid]

\* GET /api/user/progress, the answer of its second query (db.all)
\* (user.username of a missing row throws; no request gets there: a signed
\* token names a row of users, and rows of users are never deleted)
ProgressRows(p, dbOk) ==
    IF ~dbOk THEN DatabaseError
    ELSE IF p.user = Undefined THEN Reply(500, [error |-> "TypeError"])
    ELSE Reply(200, [username |-> p.user.username,
                     lastTask |-> OrOne(p.user.last_task),
                     progress |-> SelectProgress(p.userId)])

\* GET /api/user/progress with nothing running between its two queries
GetProgress(auth, dbOk1, dbOk2) ==
    IF ProgressUserFails(auth, dbOk1) THEN Same(ProgressUserError(auth, dbOk1))
    ELSE Same(ProgressRows(ProgressPending(auth, 0), dbOk2))

\* POST /api/user/last-task
PostLastTask(auth, taskId, dbOk) ==
    IF verifyToken(auth) = NoUser THEN Same(Unauthorized(auth))
    ELSE IF ~dbOk THEN Same(DatabaseError)
    ELSE Out(UpdateLastTask(verifyToken(auth), taskId), texts, progress,
             Reply(200, [success |-> TRUE]))

\* POST /api/tasks/:taskId/text
PostText(auth, taskId, content, dbOk) ==
    IF verifyToken(auth) = NoUser THEN Same(Unauthorized(auth))
    ELSE IF ~dbOk THEN Same(DatabaseError)
    ELSE Out(users, InsertOrReplaceText(verifyToken(auth), taskId, content), progress,
             Reply(200, [success |-> TRUE]))

\* GET /api/tasks/:taskId/text
GetText(auth, taskId, dbOk) ==
    IF verifyToken(auth) = NoUser THEN Same(Unauthorized(auth))
    ELSE IF ~dbOk THEN Same(DatabaseError)
    ELSE Same(Reply(200, [content |-> SelectContent(verifyToken(auth), taskId)]))

\* POST /api/tasks/:taskId/complete
\* A mutant that answers success when the statement failed.
PostCompleteSwallowed(auth, taskId, dbOk) ==
    IF verifyToken(auth) = NoUser THEN Same(Unauthorized(auth))
    ELSE IF ~dbOk THEN Same(Reply(200, [success |-> TRUE]))
    ELSE Out(users, texts, InsertOrReplaceProgress(verifyToken(auth), taskId),
             Reply(200, [success |-> TRUE]))

PostComplete(auth, taskId, dbOk) ==
    IF verifyToken(auth) = NoUser THEN Same(Unauthorized(auth))
    ELSE IF ~dbOk THEN Same(DatabaseError)
    ELSE Out(users, texts, InsertOrReplaceProgress(verifyToken(auth), taskId),
             Reply(200, [success |-> TRUE]))

Learners == 1..2

\* the header is a signed, unexpired token of learner b
ValidFor(auth, b) ==
    /\ auth.kind = "bearer"
    /\ auth.token.signed /\ ~auth.token.expired
    /\ auth.token.userId = b

\* the rows of learner b
RowsOf(b) ==
    LET Mine(r) == r.user_id = b
    IN [users |-> {u \in users : u.id = b},
        texts |-> SelectSeq(texts, Mine),
        progress |-> {p \in progress : p.user_id = b}]

\* the history of successful writes
SavedAfter(auth, taskId, content, r) ==
    IF r.status = 200
    THEN {k \in okSaved : ~(k[1] = verifyToken(auth) /\ k[2] = taskId)}
            \cup {<<verifyToken(auth), taskId, content>>}
    ELSE okSaved
DoneAfter(auth, taskId, r) ==
    IF r.status = 200 THEN okDone \cup {<<verifyToken(auth), taskId>>} ELSE okDone
RegisteredAfter(username, r) ==
    IF r.status = 200 THEN registered \cup {<<username, r.body.userId>>} ELSE registered

SetDb(out) ==
    /\ users' = out.users
    /\ texts' = out.texts
    /\ progress' = out.progress

\* a protected call made with header auth, and the record of whose rows it changed
Protected(auth, out) ==
    /\ SetDb(out)
    /\ trespass' = (trespass \/ (<<out.users, out.texts, out.progress>> # dbVars
                                  /\ \E b \in Learners :
                                        ~ValidFor(auth, b) /\ RowsOf(b)' # RowsOf(b)))

-----------------------------------------------------------------------------
(* Spec: the API called directly.  A response is not part of the state: a  *)
(* call that only reads leaves every variable as it is, and what it        *)
(* answers is the value of its handler in the state it is made in.         *)

InitDb ==
    /\ users = {}
    /\ texts = <<>>
    /\ progress = {}
    /\ okSaved = {}
    /\ okDone = {}
    /\ trespass = FALSE
    /\ registered = {}

\* new MOOCApp() with an empty localStorage: init() shows the welcome screen
NoBurst == [task |-> 0, n |-> 0, last |-> "", sent |-> {}, fired |-> FALSE]

InitClient ==
    /\ screen = "welcome"
    /\ mooc_token = NullToken
    /\ currentUser = NullUser
    /\ currentTask = 1
    /\ editor = ""
    /\ saveStatus = ""
    /\ progressFill = <<0, TotalTasks>>
    /\ saveTimer = 0
    /\ armed = {}
    /\ advance = 0
    /\ acts = {}
    /\ reqs = {}
    /\ resps = {}
    /\ pend = {}
    /\ events = 0
    /\ burst = NoBurst
    /\ unsent = {}
    /\ lastIssued = {}
    /\ failed = {}
    /\ origin = 0
    /\ refused = FALSE
    /\ faults = 0

Init == InitDb /\ InitClient

ApiRegister(username, dbOk) ==
    /\ SetDb(PostRegister(username, dbOk))
    /\ registered' = RegisteredAfter(username, PostRegister(username, dbOk).res)
    /\ UNCHANGED <<okSaved, okDone, trespass>>
    /\ UNCHANGED clientVars

ApiLogin(username, dbOk) ==
    /\ SetDb(PostLogin(username, dbOk))
    /\ UNCHANGED <<okSaved, okDone, trespass, registered>>
    /\ UNCHANGED clientVars

ApiGetProgress(auth, dbOk1, dbOk2) ==
    /\ Protected(auth, GetProgress(auth, dbOk1, dbOk2))
    /\ UNCHANGED <<okSaved, okDone, registered>>
    /\ UNCHANGED clientVars

ApiLastTask(auth, taskId, dbOk) ==
    /\ Protected(auth, PostLastTask(auth, taskId, dbOk))
    /\ UNCHANGED <<okSaved, okDone, registered>>
    /\ UNCHANGED clientVars

ApiSaveText(auth, taskId, content, dbOk) ==
    /\ Len(texts) < MaxTextRows
    /\ Protected(auth, PostText(auth, taskId, content, dbOk))
    /\ okSaved' = SavedAfter(auth, taskId, content, PostText(auth, taskId, content, dbOk).res)
    /\ UNCHANGED <<okDone, registered>>
    /\ UNCHANGED clientVars

ApiGetText(auth, taskId, dbOk) ==
    /\ Protected(auth, GetText(auth, taskId, dbOk))
    /\ UNCHANGED <<okSaved, okDone, registered>>
    /\ UNCHANGED clientVars

ApiComplete(auth, taskId, dbOk) ==
    /\ Protected(auth, PostComplete(auth, taskId, dbOk))
    /\ okDone' = DoneAfter(auth, taskId, PostComplete(auth, taskId, dbOk).res)
    /\ UNCHANGED <<okSaved, registered>>
    /\ UNCHANGED clientVars

Next ==
    \/ \E n \in UserNames, ok \in BOOLEAN : ApiRegister(n, ok)
    \/ \E n \in UserNames, ok \in BOOLEAN : ApiLogin(n, ok)
    \/ \E h \in Headers, ok1, ok2 \in BOOLEAN : ApiGetProgress(h, ok1, ok2)
    \/ \E h \in Headers, t \in BodyTaskIds, ok \in BOOLEAN : ApiLastTask(h, t, ok)
    \/ \E h \in Headers, t \in TaskParams, c \in Contents, ok \in BOOLEAN :
            ApiSaveText(h, t, c, ok)
    \/ \E h \in Headers, t \in TaskParams, ok \in BOOLEAN : ApiGetText(h, t, ok)
    \/ \E h \in Headers, t \in TaskParams, ok \in BOOLEAN : ApiComplete(h, t, ok)

Spec == Init /\ [][Next]_vars

-----------------------------------------------------------------------------
(* SpecClient, the server side: requests arrive in any order, each route   *)
(* runs its statement in one step, GET /api/user/progress in two.          *)

Request(rid, op, auth, taskId, content, username) ==
    [rid |-> rid, op |-> op, auth |-> auth, taskId |-> taskId,
     content |-> content, username |-> username]
Response(rid, r) == [rid |-> rid, res |-> r]

Route(r, dbOk) ==
    CASE r.op = "register" -> PostRegister(r.username, dbOk)
      [] r.op = "login" -> PostLogin(r.username, dbOk)
      [] r.op = "lastTask" -> PostLastTask(r.auth, r.taskId, dbOk)
      [] r.op = "saveText" -> PostText(r.auth, r.taskId, r.content, dbOk)
      [] r.op = "getText" -> GetText(r.auth, r.taskId, dbOk)
      [] r.op = "complete" -> PostComplete(r.auth, r.taskId, dbOk)

\* a query of the handler fails (dbOk = FALSE) while failures are left
Fault(dbOk) ==
    /\ dbOk \/ faults < MaxFaults
    /\ faults' = IF dbOk THEN faults ELSE faults + 1

Serve(r, dbOk) ==
    /\ r \in reqs
    /\ r.op # "progress"
    /\ Fault(dbOk)
    /\ SetDb(Route(r, dbOk))
    /\ reqs' = reqs \ {r}
    /\ resps' = resps \cup {Response(r.rid, Route(r, dbOk).res)}
    /\ okSaved' = IF r.op = "saveText"
                  THEN SavedAfter(r.auth, r.taskId, r.content, Route(r, dbOk).res)
                  ELSE okSaved
    /\ okDone' = IF r.op = "complete"
                 THEN DoneAfter(r.auth, r.taskId, Route(r, dbOk).res)
                 ELSE okDone
    /\ registered' = IF r.op = "register"
                     THEN RegisteredAfter(r.username, Route(r, dbOk).res)
                     ELSE registered
    /\ UNCHANGED <<trespass, pend, pageVars, timerVars, acts, ghostVars>>

ServeProgressUser(r, dbOk) ==
    /\ r \in reqs
    /\ r.op = "progress"
    /\ Fault(dbOk)
    /\ reqs' = reqs \ {r}
    /\ IF ProgressUserFails(r.auth, dbOk)
       THEN /\ resps' = resps \cup {Response(r.rid, ProgressUserError(r.auth, dbOk))}
            /\ pend' = pend
       ELSE /\ pend' = pend \cup {ProgressPending(r.auth, r.rid)}
            /\ resps' = resps
    /\ UNCHANGED <<dbVars, histVars, pageVars, timerVars, acts, ghostVars>>

ServeProgressRows(p, dbOk) ==
    /\ p \in pend
    /\ Fault(dbOk)
    /\ pend' = pend \ {p}
    /\ resps' = resps \cup {Response(p.rid, ProgressRows(p, dbOk))}
    /\ UNCHANGED <<dbVars, histVars, reqs, pageVars, timerVars, acts, ghostVars>>

-----------------------------------------------------------------------------
(* SpecClient, the browser.  An async method runs to its next await of a   *)
(* fetch in one step and is resumed by the response or by the fetch        *)
(* failing.                                                                *)

Act(fn, pc, rid, taskId, tok, username, inComplete, content) ==
    [fn |-> fn, pc |-> pc, rid |-> rid, taskId |-> taskId, token |-> tok,
     username |-> username, inComplete |-> inComplete, content |-> content]

LeastFree(used) == CHOOSE r \in 1..MaxEvents :
                        r \notin used /\ \A q \in 1..(r - 1) : q \in used
FreeRid == LeastFree({a.rid : a \in acts})

\* data.content || '' and the like
OrEmpty(v) == IF v = None THEN "" ELSE v

\* the history kept when a save is issued, a task is left, a save is resolved
IssueSave ==
    /\ unsent' = {u \in unsent : ~(u[1] = currentTask /\ u[2] = editor)}
    /\ lastIssued' = {k \in lastIssued : k[1] # currentTask} \cup {<<currentTask, editor>>}
LeaveTask(taskId) ==
    /\ unsent' = IF armed # {} /\ taskId # currentTask
                 THEN {IF u[1] = currentTask THEN <<u[1], u[2], TRUE>> ELSE u : u \in unsent}
                 ELSE unsent
    /\ lastIssued' = lastIssued

\* updateProgressBar(): the entries of this.currentUser.progress that are
\* completed, over the literal 19
updateProgressBar(user) ==
    <<Cardinality({i \in DOMAIN user.progress : user.progress[i].completed}), 19>>

\* clearTimeout(handle)
\* A mutant that leaves the timeout armed.
clearTimeoutNot(handle) == armed

clearTimeout(handle) == armed \ {handle}

\* scheduleAutoSave()
scheduleAutoSave ==
    /\ saveStatus' = "saving"
    /\ saveTimer' = LeastFree(clearTimeout(saveTimer))
    /\ armed' = clearTimeout(saveTimer) \cup {LeastFree(clearTimeout(saveTimer))}

\* saveCurrentText() up to its await
saveCurrentText(rid, inComplete, tok) ==
    /\ acts' = acts \cup {Act("saveCurrentText", "save", rid, currentTask, tok, "", inComplete, editor)}
    /\ reqs' = reqs \cup {Request(rid, "saveText", Bearer(mooc_token), currentTask, editor, "")}
    /\ IssueSave

\* loadTask(taskId) up to the await in loadTaskText
loadTask(taskId, rid, others, rq) ==
    /\ currentTask' = taskId
    /\ acts' = others \cup {Act("loadTask", "text", rid, taskId, NullToken, "", FALSE, "")}
    /\ reqs' = rq \cup {Request(rid, "getText", Bearer(mooc_token), taskId, "", "")}

\* the submit event of the sign-in form: handleAuth up to its first await
\* (the form is not submitted again while a submission is being handled)
HandleAuth(username) ==
    /\ screen = "welcome"
    /\ \A a \in acts : a.fn # "handleAuth"
    /\ Cardinality(acts) < MaxFetches
    /\ burst' = NoBurst
    /\ IF Len(username) < 3
       THEN UNCHANGED <<acts, reqs>>
       ELSE /\ acts' = acts \cup {Act("handleAuth", "login", FreeRid, 0, NullToken, username, FALSE, "")}
            /\ reqs' = reqs \cup {Request(FreeRid, "login", NoHeader, 0, "", username)}
    /\ UNCHANGED <<dbVars, histVars, pageVars, timerVars, resps, pend, events, unsent, lastIssued, failed, origin, refused, faults>>

\* an input event of the editor
Input(x) ==
    /\ screen = "course"
    /\ events < MaxEvents
    /\ events' = events + 1
    /\ editor' = x
    /\ origin' = currentTask
    /\ scheduleAutoSave
    /\ burst' = [task |-> currentTask, n |-> IF burst.fired THEN 1 ELSE burst.n + 1,
                 last |-> x, sent |-> {}, fired |-> FALSE]
    /\ unsent' = {u \in unsent : u[1] # currentTask \/ u[3]} \cup {<<currentTask, x, FALSE>>}
    /\ UNCHANGED <<dbVars, histVars, screen, mooc_token, currentUser, currentTask, progressFill,
                   advance, acts, netVars, lastIssued, failed, refused, faults>>

\* the timeout of scheduleAutoSave fires
SaveTimerFires(id) ==
    /\ id \in armed
    /\ Cardinality(acts) < MaxFetches
    /\ armed' = armed \ {id}
    /\ saveCurrentText(FreeRid, FALSE, NullToken)
    /\ burst' = IF burst.n > 0 /\ ~burst.fired
                THEN [burst EXCEPT !.sent = reqs' \ reqs, !.fired = TRUE]
                ELSE NoBurst
    /\ UNCHANGED <<dbVars, histVars, pageVars, saveTimer, advance, resps, pend, events, failed, origin, refused, faults>>

\* click on the save button
ClickSave ==
    /\ screen = "course"
    /\ events < MaxEvents
    /\ Cardinality(acts) < MaxFetches
    /\ events' = events + 1
    /\ saveCurrentText(FreeRid, FALSE, NullToken)
    /\ burst' = NoBurst
    /\ UNCHANGED <<dbVars, histVars, pageVars, timerVars, resps, pend, failed, origin, refused, faults>>

\* click on the complete button: completeTask up to the await of saveCurrentText
ClickComplete ==
    /\ screen = "course"
    /\ events < MaxEvents
    /\ Cardinality(acts) < MaxFetches
    /\ events' = events + 1
    /\ saveCurrentText(FreeRid, TRUE, mooc_token)
    /\ burst' = NoBurst
    /\ UNCHANGED <<dbVars, histVars, pageVars, timerVars, resps, pend, failed, origin, refused, faults>>

\* click on a task of the navigation
ClickTask(taskId) ==
    /\ screen = "course"
    /\ events < MaxEvents
    /\ Cardinality(acts) < MaxFetches
    /\ events' = events + 1
    /\ loadTask(taskId, FreeRid, acts, reqs)
    /\ LeaveTask(taskId)
    /\ burst' = NoBurst
    /\ UNCHANGED <<dbVars, histVars, screen, mooc_token, currentUser, editor, saveStatus, progressFill,
                   timerVars, resps, pend, failed, origin, refused, faults>>

\* the timeout of completeTask fires: loadTask(this.currentTask + 1)
AdvanceFires ==
    /\ advance > 0
    /\ Cardinality(acts) < MaxFetches
    /\ advance' = advance - 1
    /\ loadTask(currentTask + 1, FreeRid, acts, reqs)
    /\ LeaveTask(currentTask + 1)
    /\ burst' = NoBurst
    /\ UNCHANGED <<dbVars, histVars, screen, mooc_token, currentUser, editor, saveStatus, progressFill,
                   saveTimer, armed, resps, pend, events, failed, origin, refused, faults>>

\* click on the logout button, confirmed
\* A mutant that aborts the saves on their way.
LogoutAborting ==
    /\ screen = "course"
    /\ events < MaxEvents
    /\ events' = events + 1
    /\ mooc_token' = NullToken
    /\ currentUser' = NullUser
    /\ currentTask' = 1
    /\ screen' = "welcome"
    /\ burst' = NoBurst
    /\ reqs' = {r \in reqs : r.op # "saveText"}
    /\ UNCHANGED <<dbVars, histVars, editor, saveStatus, progressFill, timerVars, acts, resps, pend,
                   unsent, lastIssued, failed, origin, refused, faults>>

Logout ==
    /\ screen = "course"
    /\ events < MaxEvents
    /\ events' = events + 1
    /\ mooc_token' = NullToken
    /\ currentUser' = NullUser
    /\ currentTask' = 1
    /\ screen' = "welcome"
    /\ burst' = NoBurst
    /\ UNCHANGED <<dbVars, histVars, editor, saveStatus, progressFill, timerVars, acts, netVars,
                   unsent, lastIssued, failed, origin, refused, faults>>

\* the 30 days of the stored token pass: it is the same token in localStorage,
\* in the requests on their way and in the calls that read it before
TokenExpires ==
    /\ mooc_token.signed
    /\ ~mooc_token.expired
    /\ faults < MaxFaults
    /\ faults' = faults + 1
    /\ mooc_token' = [mooc_token EXCEPT !.expired = TRUE]
    /\ reqs' = {IF r.auth = Bearer(mooc_token) THEN [r EXCEPT !.auth = Bearer(mooc_token')] ELSE r :
                    r \in reqs}
    /\ acts' = {IF a.token = mooc_token THEN [a EXCEPT !.token = mooc_token'] ELSE a : a \in acts}
    /\ UNCHANGED <<dbVars, histVars, screen, currentUser, currentTask, editor, saveStatus,
                   progressFill, timerVars, resps, pend, ghostVars>>

\* A suspended call a is resumed with out: "ok" (response.ok), "notok" (another
\* status) or "throw" (fetch rejected); body is the response's JSON and rq the
\* requests still on their way.

Finish(a, rq) ==
    /\ acts' = acts \ {a}
    /\ reqs' = rq

\* handleAuth after a response.ok: the token is stored, loadUserProgress is called
AuthSuccess(a, body, rq) ==
    /\ mooc_token' = body.token
    /\ currentUser' = [username |-> body.username, lastTask |-> OrOne(body.lastTask),
                       progress |-> <<>>]
    /\ currentTask' = OrOne(body.lastTask)
    /\ acts' = (acts \ {a}) \cup {Act("handleAuth", "progress", a.rid, 0, NullToken, a.username, FALSE, "")}
    /\ reqs' = rq \cup {Request(a.rid, "progress", Bearer(body.token), 0, "", "")}
    /\ UNCHANGED <<screen, editor, saveStatus, progressFill, advance, failed, origin>>

\* handleAuth resumed by the answer to login
LoginDone(a, out, body, rq) ==
    /\ a.fn = "handleAuth"
    /\ a.pc = "login"
    /\ \/ /\ out = "ok"
          /\ AuthSuccess(a, body, rq)
       \/ /\ out = "notok"
          /\ acts' = (acts \ {a}) \cup {[a EXCEPT !.pc = "register"]}
          /\ reqs' = rq \cup {Request(a.rid, "register", NoHeader, 0, "", a.username)}
          /\ UNCHANGED <<pageVars, advance, failed, origin>>
       \/ /\ out = "throw"
          /\ Finish(a, rq)
          /\ UNCHANGED <<pageVars, advance, failed, origin>>

\* handleAuth resumed by the answer to register
RegisterDone(a, out, body, rq) ==
    /\ a.fn = "handleAuth"
    /\ a.pc = "register"
    /\ \/ /\ out = "ok"
          /\ AuthSuccess(a, body, rq)
       \/ /\ out # "ok"
          /\ Finish(a, rq)
          /\ UNCHANGED <<pageVars, advance, failed, origin>>

\* handleAuth resumed by the answer to loadUserProgress: showCourseScreen,
\* which calls loadTask(this.currentTask)
AuthProgressDone(a, out, body, rq) ==
    /\ a.fn = "handleAuth"
    /\ a.pc = "progress"
    /\ \/ /\ out = "ok"
          /\ currentUser' = [username |-> body.username, lastTask |-> body.lastTask,
                             progress |-> body.progress]
          /\ screen' = "course"
          /\ loadTask(body.lastTask, a.rid, acts \ {a}, rq)
          /\ progressFill' = updateProgressBar(currentUser')
          /\ UNCHANGED <<mooc_token, editor, saveStatus, advance, failed, origin>>
       \/ /\ out # "ok"
          /\ Finish(a, rq)
          /\ UNCHANGED <<pageVars, advance, failed, origin>>

\* loadTask resumed by the answer to loadTaskText: updateProgressBar() and
\* updateLastTask(taskId)
LoadTextDone(a, out, body, rq) ==
    /\ a.fn = "loadTask"
    /\ a.pc = "text"
    /\ editor' = IF out = "ok" THEN OrEmpty(body.content) ELSE editor
    /\ origin' = IF out = "ok" THEN a.taskId ELSE origin
    /\ progressFill' = updateProgressBar(currentUser)
    /\ acts' = (acts \ {a}) \cup {[a EXCEPT !.pc = "lastTask"]}
    /\ reqs' = rq \cup {Request(a.rid, "lastTask", Bearer(mooc_token), a.taskId, "", "")}
    /\ UNCHANGED <<screen, mooc_token, currentUser, currentTask, saveStatus, advance, failed>>

\* loadTask resumed by the answer to updateLastTask
LastTaskDone(a, out, rq) ==
    /\ a.fn = "loadTask"
    /\ a.pc = "lastTask"
    /\ Finish(a, rq)
    /\ UNCHANGED <<pageVars, advance, failed, origin>>

\* saveCurrentText resumed; a completeTask awaiting it goes on to its fetch
\* of /api/tasks/${this.currentTask}/complete
SaveDone(a, out, rq) ==
    /\ a.fn = "saveCurrentText"
    /\ saveStatus' = IF out = "ok" THEN "saved" ELSE "error"
    /\ failed' = IF out = "ok" THEN failed ELSE failed \cup {a.taskId}
    /\ IF a.inComplete
       THEN /\ acts' = (acts \ {a}) \cup
                    {Act("completeTask", "complete", a.rid, currentTask, a.token, "", FALSE, "")}
            /\ reqs' = rq \cup {Request(a.rid, "complete", Bearer(a.token), currentTask, "", "")}
       ELSE Finish(a, rq)
    /\ UNCHANGED <<screen, mooc_token, currentUser, currentTask, editor, progressFill, advance, origin>>

\* completeTask resumed by the answer to complete: loadUserProgress
\* A mutant that goes on to loadUserProgress whatever the answer.
CompleteDoneRegardless(a, out, rq) ==
    /\ a.fn = "completeTask"
    /\ a.pc = "complete"
    /\ acts' = (acts \ {a}) \cup {[a EXCEPT !.pc = "progress"]}
    /\ reqs' = rq \cup {Request(a.rid, "progress", Bearer(mooc_token), 0, "", "")}
    /\ UNCHANGED <<pageVars, advance, failed, origin>>

CompleteDone(a, out, rq) ==
    /\ a.fn = "completeTask"
    /\ a.pc = "complete"
    /\ IF out = "ok"
       THEN /\ acts' = (acts \ {a}) \cup {[a EXCEPT !.pc = "progress"]}
            /\ reqs' = rq \cup {Request(a.rid, "progress", Bearer(mooc_token), 0, "", "")}
       ELSE Finish(a, rq)
    /\ UNCHANGED <<pageVars, advance, failed, origin>>

\* completeTask resumed by the answer to loadUserProgress: the timeout of the
\* auto-advance is set
CompleteProgressDone(a, out, body, rq) ==
    /\ a.fn = "completeTask"
    /\ a.pc = "progress"
    /\ Finish(a, rq)
    /\ \/ /\ out = "ok"
          /\ currentUser' = [username |-> body.username, lastTask |-> body.lastTask,
                             progress |-> body.progress]
          /\ currentTask' = body.lastTask
          /\ advance' = IF body.lastTask < TotalTasks THEN advance + 1 ELSE advance
          /\ UNCHANGED <<screen, mooc_token, editor, saveStatus, progressFill, failed, origin>>
       \/ /\ out # "ok"
          /\ UNCHANGED <<pageVars, advance, failed, origin>>

Resume(a, out, body, rq, rs) ==
    /\ resps' = rs
    /\ burst' = NoBurst
    /\ \/ LoginDone(a, out, body, rq)
       \/ RegisterDone(a, out, body, rq)
       \/ AuthProgressDone(a, out, body, rq)
       \/ LoadTextDone(a, out, body, rq)
       \/ LastTaskDone(a, out, rq)
       \/ SaveDone(a, out, rq)
       \/ CompleteDone(a, out, rq)
       \/ CompleteProgressDone(a, out, body, rq)
    /\ refused' = (refused \/ (out # "ok" /\ a.pc \in {"text", "lastTask", "progress"}))
    /\ UNCHANGED <<dbVars, histVars, saveTimer, armed, pend, events, unsent, lastIssued>>

\* a response reaches the browser
Deliver(a, m) ==
    /\ a \in acts
    /\ m \in resps
    /\ m.rid = a.rid
    /\ Resume(a, IF m.res.status = 200 THEN "ok" ELSE "notok", m.res.body, reqs, resps \ {m})
    /\ faults' = faults

\* the fetch fails: the request never reaches the server, or its response is lost
NoBody == [error |-> "fetch"]

RequestLost(a, r) ==
    /\ a \in acts
    /\ r \in reqs
    /\ r.rid = a.rid
    /\ Fault(FALSE)
    /\ Resume(a, "throw", NoBody, reqs \ {r}, resps)

ResponseLost(a, m) ==
    /\ a \in acts
    /\ m \in resps
    /\ m.rid = a.rid
    /\ Fault(FALSE)
    /\ Resume(a, "throw", NoBody, reqs, resps \ {m})

NextClient ==
    \/ \E n \in FormNames : HandleAuth(n)
    \/ \E x \in Contents : Input(x)
    \/ \E id \in armed : SaveTimerFires(id)
    \/ ClickSave
    \/ ClickComplete
    \/ \E t \in ClickTasks : ClickTask(t)
    \/ AdvanceFires
    \/ Logout
    \/ TokenExpires
    \/ \E a \in acts, m \in resps : Deliver(a, m)
    \/ \E a \in acts, r \in reqs : RequestLost(a, r)
    \/ \E a \in acts, m \in resps : ResponseLost(a, m)
    \/ \E r \in reqs, ok \in BOOLEAN : Serve(r, ok)
    \/ \E r \in reqs, ok \in BOOLEAN : ServeProgressUser(r, ok)
    \/ \E p \in pend, ok \in BOOLEAN : ServeProgressRows(p, ok)

SpecClient == Init /\ [][NextClient]_vars

-----------------------------------------------------------------------------
(* Claims about the store, checked under Spec *)

\* what a learner holding a fresh credential is answered
LoadDraft(userId, taskId) ==
    GetText(Bearer(jwtSign(userId)), taskId, TRUE).res.body.content
ProgressOf(userId) ==
    GetProgress(Bearer(jwtSign(userId)), TRUE, TRUE).res.body

\* C1: a loadDraft(L,T) issued after a successful saveDraft(L,T,x), with no
\* later save for (L,T), returns exactly x, whatever was saved for (L,T) before.
C1_RoundTrip ==
    \A k \in okSaved : LoadDraft(k[1], k[2]) = k[3]

\* what learner a's reads answer, computed from a's rows alone
OwnDraft(a, taskId) ==
    LET mine == RowsOf(a).texts
        ids == {i \in 1..Len(mine) : mine[i].task_id = taskId}
    IN IF ids = {} THEN "" ELSE mine[MinOf(ids)].content
OwnProgress(a) ==
    {[task_id |-> p.task_id, completed |-> p.completed] : p \in RowsOf(a).progress}
ReadsOwnRows ==
    \A a \in UserIds :
        /\ \A t \in TaskParams : LoadDraft(a, t) = OwnDraft(a, t)
        /\ {ProgressOf(a).progress[i] : i \in 1..Len(ProgressOf(a).progress)} = OwnProgress(a)
        /\ \E u \in RowsOf(a).users :
              /\ ProgressOf(a).username = u.username
              /\ ProgressOf(a).lastTask = OrOne(u.last_task)

\* C5: cross-learner isolation: no protected call made with anything but a
\* valid credential of learner b has changed b's user row, drafts or progress
\* entries, and every read is answered from the caller's own rows.
C5_Isolation == ~trespass /\ ReadsOwnRows

\* both learners hold drafts and progress entries, written with their own credentials
C5_Witness ==
    \A b \in Learners :
        /\ RowsOf(b).users # {}
        /\ RowsOf(b).texts # <<>>
        /\ RowsOf(b).progress # {}

\* C6: the store holds at most one Draft row and at most one Progress row
\* for each (learnerId, taskId) pair.
C6_OneRowPerKey ==
    \A u \in Learners, t \in TaskParams :
        /\ Cardinality(TextIds(u, t)) <= 1
        /\ Cardinality({p \in progress : p.user_id = u /\ p.task_id = t}) <= 1

\* getProgress(L) reports task T as completed
ReportsCompleted(userId, taskId) ==
    \E i \in 1..Len(ProgressOf(userId).progress) :
        /\ ProgressOf(userId).progress[i].task_id = taskId
        /\ ProgressOf(userId).progress[i].completed

\* C7: once completeTask(L,T) has succeeded, T is completed for L in every
\* later state, whatever operations follow, and getProgress(L) reports it so.
C7_CompletionMonotone ==
    \A k \in okDone :
        /\ \E p \in progress : p.user_id = k[1] /\ p.task_id = k[2] /\ p.completed
        /\ ReportsCompleted(k[1], k[2])

\* a completed task whose learner went on to save a draft of it and to move
\* the last-task pointer
C7_Witness ==
    \E k \in okDone :
        /\ \E d \in okSaved : d[1] = k[1] /\ d[2] = k[2]
        /\ \E u \in users : u.id = k[1] /\ u.last_task # 1

\* C8: every learner's lastTaskId is a task identifier in [1, N].
C8_LastTaskInRange ==
    \A u \in users : u.last_task \in 1..TotalTasks

-----------------------------------------------------------------------------
(* Claims about the browser, checked under SpecClient *)

\* the saves of task t that have not resolved
SavesInFlight(t) == {a \in acts : a.fn = "saveCurrentText" /\ a.taskId = t}

\* C2: in every reachable client state at most one saveDraft request for a
\* given task is in flight.
C2_OneSaveInFlight ==
    \A t \in 1..(TotalTasks + 1) : Cardinality(SavesInFlight(t)) <= 1

\* C3: a manual save or a complete action cancels any pending debounce timer
\* before issuing its save: no timeout is armed after the click is handled.
C3_ManualSaveCancelsTimer ==
    [][(ClickSave \/ ClickComplete) => armed' = {}]_vars

\* C4: a burst of edit events on one task, with no other step of the browser
\* in between, keeps exactly one timeout armed and issues no save itself; the
\* timeout that ends the burst issues exactly one saveDraft request, for the
\* task of the burst and with the content of its last edit, and leaves no
\* timeout armed.
C4_BurstSavedOnce ==
    /\ (burst.n > 0 /\ ~burst.fired) =>
          /\ Cardinality(armed) = 1
          /\ burst.sent = {}
          /\ editor = burst.last
    /\ burst.fired =>
          /\ armed = {}
          /\ Cardinality(burst.sent) = 1
          /\ \A r \in burst.sent :
                /\ r.op = "saveText"
                /\ r.taskId = burst.task
                /\ r.content = burst.last

\* a burst of two or more edits has been ended by its timeout
C4_Witness ==
    /\ burst.fired
    /\ burst.n >= 2
    /\ \E r \in burst.sent : r.content = "a"

\* the browser is at rest: no timeout is armed and no fetch is outstanding
Quiescent ==
    /\ armed = {}
    /\ advance = 0
    /\ acts = {}
    /\ reqs = {}
    /\ resps = {}
    /\ pend = {}

\* C9: no save is dropped by navigation: once the browser is at rest, the
\* content of every edit that was left behind by a switch of task while its
\* timeout was armed has been sent in a saveDraft request for its task.
C9_NoSaveDropped ==
    Quiescent => \A u \in unsent : ~u[3]

\* C10: saves of one task take effect in the order the client issued them:
\* once every save issued for task T has resolved, each with success, the
\* stored draft of T is the content of the save issued last.
C10_IssueOrder ==
    \A k \in lastIssued :
        (SavesInFlight(k[1]) = {} /\ k[1] \notin failed) =>
            \A u \in users : LoadDraft(u.id, k[1]) = k[2]

-----------------------------------------------------------------------------
(* Claims about the identity issuer and the validator, checked under Spec *)

\* the tables a handler leaves behind are the tables it found
Untouched(out) == <<out.users, out.texts, out.progress>> = dbVars

\* the response carries no credential
NoCredential(r) == "token" \notin DOMAIN r.body

\* C11: registering an already registered username is answered 409 and
\* changes nothing: no learner is added, the rows of the existing learner stay
\* as they are, and the credential of the first registration still verifies.
C11_DuplicateRegister ==
    \A k \in registered :
        /\ PostRegister(k[1], TRUE).res.status = 409
        /\ NoCredential(PostRegister(k[1], TRUE).res)
        /\ Untouched(PostRegister(k[1], TRUE))
        /\ verifyToken(Bearer(jwtSign(k[2]))) = k[2]
        /\ \E u \in users : u.id = k[2] /\ u.username = k[1]

\* a registered learner who holds a draft, a completed task and a moved
\* last-task pointer, while another learner exists
C11_Witness ==
    \E k \in registered :
        /\ RowsOf(k[2]).texts # <<>>
        /\ RowsOf(k[2]).progress # {}
        /\ \E u \in users : u.id = k[2] /\ u.last_task # 1
        /\ Cardinality(users) = 2


\* C12: usernames are unique under every interleaving of register calls: of
\* the register calls made for one username exactly one was answered with a
\* credential and created a learner, every further one is answered 409, and
\* usernames that differ only in letter case belong to distinct learners,
\* each of which can register.
C12_UniqueUsernames ==
    /\ \A p, q \in registered : (p[1] = q[1] \/ p[2] = q[2]) => p = q
    /\ \A u, v \in users : (u.username = v.username \/ u.id = v.id) => u = v
    /\ {<<u.username, u.id>> : u \in users} = registered
    /\ \A n \in UserNames :
          Len(n) >= 3 =>
             PostRegister(n, TRUE).res.status =
                 IF \E k \in registered : k[1] = n THEN 409 ELSE 200

\* "alice" and "Alice" have both registered
C12_Witness ==
    /\ \E k \in registered : k[1] = "alice"
    /\ \E k \in registered : k[1] = "Alice"


\* C13: register with a missing username or one shorter than 3 characters is
\* answered 400, creates no learner and mints no credential; register with a
\* fresh username creates exactly one learner, with last_task 1, and answers
\* lastTask 1 with a credential of that learner.
C13_RegisterValidation ==
    /\ \A n \in UserNames, ok \in BOOLEAN :
          Len(n) < 3 =>
             /\ PostRegister(n, ok).res.status = 400
             /\ NoCredential(PostRegister(n, ok).res)
             /\ Untouched(PostRegister(n, ok))
    /\ \A n \in UserNames :
          (Len(n) >= 3 /\ UsersByName(n) = {}) =>
             LET out == PostRegister(n, TRUE)
             IN /\ out.res.status = 200
                /\ out.res.body.lastTask = 1
                /\ out.res.body.username = n
                /\ verifyToken(Bearer(out.res.body.token)) = out.res.body.userId
                /\ users \subseteq out.users
                /\ out.users \ users =
                      {[id |-> out.res.body.userId, username |-> n, last_task |-> 1]}
                /\ out.res.body.userId \notin UserIds
                /\ out.texts = texts /\ out.progress = progress
    /\ \A k \in registered : Len(k[1]) >= 3

\* a learner has just been created: the row is as the INSERT made it, next to
\* an older learner's rows
C13_Witness ==
    \E k \in registered :
        /\ \E u \in users : u.id = k[2] /\ u.last_task = 1
        /\ RowsOf(k[2]).texts = <<>>
        /\ RowsOf(k[2]).progress = {}
        /\ texts # <<>>


\* C14: login with a username for which no learner exists is answered 404
\* without a credential, and no login, whatever its outcome, changes the set
\* of learners.
C14_LoginUnknown ==
    /\ \A n \in UserNames :
          UsersByName(n) = {} =>
             /\ PostLogin(n, TRUE).res.status = 404
             /\ NoCredential(PostLogin(n, TRUE).res)
    /\ \A n \in UserNames, ok \in BOOLEAN : Untouched(PostLogin(n, ok))

\* one of "alice" and "Alice" is a learner and the other is not
C14_Witness ==
    /\ Cardinality(users) = 1
    /\ \E n \in {"alice", "Alice"} : UsersByName(n) = {}
    /\ texts # <<>>


\* C15: login of an existing learner returns a credential that resolves to
\* the learner id register created for the username, together with the
\* learner's current last task: the value the most recent successful
\* setLastTask stored, 1 if there was none.
C15_LoginReturnsLearner ==
    \A u \in users :
        /\ PostLogin(u.username, TRUE).res.status = 200
        /\ verifyToken(Bearer(PostLogin(u.username, TRUE).res.body.token)) = u.id
        /\ <<u.username, u.id>> \in registered
        /\ PostLogin(u.username, TRUE).res.body.lastTask = u.last_task


\* C16: every protected operation called with an absent, malformed, unsigned
\* or expired credential is answered 401 and leaves the store unchanged; the
\* validator passes on a learner id only when the credential is a valid one,
\* and then the id that credential encodes.
C16_InvalidCredential ==
    /\ \A h \in InvalidHeaders, ok \in BOOLEAN :
          /\ GetProgress(h, ok, ok).res.status = 401
          /\ Untouched(GetProgress(h, ok, ok))
          /\ \A t \in BodyTaskIds :
                /\ PostLastTask(h, t, ok).res.status = 401
                /\ Untouched(PostLastTask(h, t, ok))
          /\ \A t \in TaskParams :
                /\ GetText(h, t, ok).res.status = 401
                /\ Untouched(GetText(h, t, ok))
                /\ PostComplete(h, t, ok).res.status = 401
                /\ Untouched(PostComplete(h, t, ok))
                /\ \A c \in Contents :
                      /\ PostText(h, t, c, ok).res.status = 401
                      /\ Untouched(PostText(h, t, c, ok))
    /\ \A h \in Headers :
          verifyToken(h) # NoUser =>
             /\ h \in ValidHeaders
             /\ verifyToken(h) = h.token.userId
             /\ verifyToken(h) \in UserIds

\* a learner with a draft and a completed task whose token has expired
C16_Witness ==
    \E h \in InvalidHeaders :
        /\ h.kind = "bearer"
        /\ h.token.expired
        /\ RowsOf(h.token.userId).texts # <<>>
        /\ RowsOf(h.token.userId).progress # {}


-----------------------------------------------------------------------------
(* Claims about the progress and draft store, checked under Spec *)

\* the entries getProgress is to report for a learner: one per completed task
CompletedEntries(userId) ==
    {[task_id |-> k[2], completed |-> TRUE] : k \in {d \in okDone : d[1] = userId}}

\* C17: getProgress(L) is answered 200 with exactly one entry per task whose
\* completeTask(L, .) succeeded, each completed, so with an empty list when
\* there is none and whatever drafts were saved; its lastTask is the last
\* task that setLastTask stored for L.
C17_ProgressEntries ==
    \A u \in users :
        /\ GetProgress(Bearer(jwtSign(u.id)), TRUE, TRUE).res.status = 200
        /\ Len(ProgressOf(u.id).progress) = Cardinality(CompletedEntries(u.id))
        /\ {ProgressOf(u.id).progress[i] : i \in 1..Len(ProgressOf(u.id).progress)}
              = CompletedEntries(u.id)
        /\ ProgressOf(u.id).lastTask = u.last_task


\* C18: loadDraft(L,T) of a pair for which no draft was ever saved is
\* answered 200 with the empty string, for every task id, a task of the
\* course or not.
C18_LoadNeverSaved ==
    \A u \in UserIds, t \in AnyTaskIds :
        (\A k \in okSaved : ~(k[1] = u /\ k[2] = t)) =>
            GetText(Bearer(jwtSign(u)), t, TRUE).res = Reply(200, [content |-> ""])

\* a learner who saved a non-empty draft of one task and none of the other
C18_Witness ==
    \E k \in okSaved :
        /\ k[3] # ""
        /\ \E t \in TaskParams : \A d \in okSaved : ~(d[1] = k[1] /\ d[2] = t)


\* C19: when the statement of a store operation fails, the caller is answered
\* 500 and the tables are as they were (the statement is not run again); a
\* statement that succeeds is applied once; and every write that was answered
\* 200 is in the tables.
C19_StorageFailure ==
    /\ \A h \in ValidHeaders :
          /\ GetProgress(h, FALSE, TRUE).res.status = 500
          /\ GetProgress(h, TRUE, FALSE).res.status = 500
          /\ Untouched(GetProgress(h, FALSE, FALSE))
          /\ \A t \in BodyTaskIds :
                /\ PostLastTask(h, t, FALSE).res.status = 500
                /\ Untouched(PostLastTask(h, t, FALSE))
                /\ \E u \in PostLastTask(h, t, TRUE).users :
                      u.id = verifyToken(h) /\ u.last_task = t
          /\ \A t \in TaskParams :
                /\ GetText(h, t, FALSE).res.status = 500
                /\ Untouched(GetText(h, t, FALSE))
                /\ PostComplete(h, t, FALSE).res.status = 500
                /\ Untouched(PostComplete(h, t, FALSE))
                /\ \A c \in Contents :
                      /\ PostText(h, t, c, FALSE).res.status = 500
                      /\ Untouched(PostText(h, t, c, FALSE))
                      /\ PostText(h, t, c, TRUE).texts =
                            Append(texts, [user_id |-> verifyToken(h), task_id |-> t,
                                           content |-> c])
    /\ \A k \in okSaved :
          \E i \in 1..Len(texts) :
              texts[i] = [user_id |-> k[1], task_id |-> k[2], content |-> k[3]]
    /\ \A k \in okDone :
          [user_id |-> k[1], task_id |-> k[2], completed |-> TRUE] \in progress

\* a learner with a saved draft, a completed task and a moved last-task
\* pointer, whose next statement may fail
C19_Witness ==
    \E h \in ValidHeaders :
        /\ \E k \in okSaved : k[1] = verifyToken(h)
        /\ \E k \in okDone : k[1] = verifyToken(h)
        /\ \E u \in users : u.id = verifyToken(h) /\ u.last_task = 2


-----------------------------------------------------------------------------
(* Further claims about the browser, checked under SpecClient *)

\* the learner has left the task of call a, or has logged out
LeftBehind(a) == currentTask # a.taskId \/ screen = "welcome"

\* C20: a saveDraft request in flight is not cancelled by a switch of task
\* or by a logout: as long as its save has not resolved, the request is on
\* its way with the task id and the content it was issued with, or it has
\* been answered, and if answered 200 the store holds that content for that
\* task.
C20_SaveNotCancelled ==
    \A a \in acts :
        a.fn = "saveCurrentText" =>
            \/ \E r \in reqs :
                  /\ r.rid = a.rid
                  /\ r.op = "saveText"
                  /\ r.taskId = a.taskId
                  /\ r.content = a.content
            \/ \E m \in resps :
                  /\ m.rid = a.rid
                  /\ m.res.status = 200 =>
                        \E i \in 1..Len(texts) :
                            /\ texts[i].task_id = a.taskId
                            /\ texts[i].content = a.content

\* a save of "a" was issued, the learner left its task or logged out, and the
\* save has reached the store and been answered 200 since
C20_Witness ==
    \E a \in acts :
        /\ a.fn = "saveCurrentText"
        /\ a.content = "a"
        /\ LeftBehind(a)
        /\ \E m \in resps : m.rid = a.rid /\ m.res.status = 200
        /\ \E i \in 1..Len(texts) :
              texts[i].task_id = a.taskId /\ texts[i].content = "a"


-----------------------------------------------------------------------------
(* Claims about the save scheduler and the navigation, checked under SpecClient *)

\* the saves that have not resolved
SaveInFlight == \E a \in acts : a.fn = "saveCurrentText"

\* C21: every edit event cancels the timeout armed before it and arms one, so
\* that at most one timeout is armed after it; an edit that arrives while a
\* save is in flight arms no timeout.
C21_OneTimerNoneWhileSaving ==
    [][(\E x \in Contents : Input(x)) =>
            /\ Cardinality(armed') <= 1
            /\ SaveInFlight => armed' = {}]_vars


\* the suspended calls resumed in this step, the calls that come to an await
\* in it, and the requests issued in it
Resumed == {a \in acts : \A b \in acts' : b.rid # a.rid \/ b.pc # a.pc}
Suspended == {b \in acts' : \A a \in acts : a.rid # b.rid \/ a.pc # b.pc}
Issued == {r \in reqs' : \A q \in reqs : q.rid # r.rid \/ q.op # r.op}

\* the answer that resumes the suspended call a in this step is a 200
Answered200(a) ==
    /\ faults' = faults
    /\ \E m \in resps \ resps' : m.rid = a.rid /\ m.res.status = 200

\* a saveDraft request is issued in this step
SaveRequested == \E r \in Issued : r.op = "saveText"

\* C22: the answer to a save sets the status to saved when it is a 200 and to
\* error otherwise (another status, or the fetch failing), and it makes no
\* request and arms no timeout; while the status is error, that is after a
\* failed save with no edit since, a saveDraft request is issued only by a
\* click on the save or the complete button.
C22_NoRetryAfterFailure ==
    [][/\ \A a \in Resumed :
            a.fn = "saveCurrentText" =>
                /\ saveStatus' = IF Answered200(a) THEN "saved" ELSE "error"
                /\ ~SaveRequested
                /\ armed' = armed
       /\ (saveStatus = "error" /\ SaveRequested) => (ClickSave \/ ClickComplete)]_vars


\* C23: the status saved or error decays: once the browser is at rest, with
\* no timeout armed and no fetch outstanding, so that nothing happens until
\* the next user event, the status has returned to idle.
C23_StatusDecays ==
    Quiescent => saveStatus \notin {"saved", "error"}


\* C24: the steps of a complete action happen in a fixed order.  The click
\* issues the save of the editor's content and nothing else; the complete
\* request is issued by the step that resumes that save; the refresh of the
\* progress is issued by the step that resumes the complete request with a
\* 200; the auto-advance is scheduled by the step that resumes the refresh
\* with a 200.  When the complete request fails, that step issues no refresh,
\* schedules no advance and ends the call.
C24_CompleteOrder ==
    [][/\ ClickComplete =>
            /\ \E r \in Issued :
                    r.op = "saveText" /\ r.taskId = currentTask /\ r.content = editor
            /\ \A r \in Issued : r.op = "saveText"
       /\ \A r \in Issued :
            r.op = "complete" =>
                \E a \in Resumed :
                    a.fn = "saveCurrentText" /\ a.inComplete /\ a.rid = r.rid
       /\ \A b \in Suspended :
            (b.fn = "completeTask" /\ b.pc = "progress") =>
                /\ \E a \in Resumed :
                        /\ a.fn = "completeTask" /\ a.pc = "complete"
                        /\ a.rid = b.rid
                        /\ Answered200(a)
                /\ \E r \in Issued : r.op = "progress" /\ r.rid = b.rid
       /\ \A r \in Issued :
            r.op = "progress" =>
                \E a \in Resumed :
                    /\ a.rid = r.rid
                    /\ \/ a.fn = "handleAuth"
                       \/ a.fn = "completeTask" /\ a.pc = "complete" /\ Answered200(a)
       /\ advance' > advance =>
            \E a \in Resumed :
                a.fn = "completeTask" /\ a.pc = "progress" /\ Answered200(a)
       /\ \A a \in Resumed :
            (a.fn = "completeTask" /\ a.pc = "complete" /\ ~Answered200(a)) =>
                /\ \A r \in Issued : r.op # "progress"
                /\ \A b \in acts' : b.rid # a.rid
                /\ advance' = advance]_vars

\* a complete action has gone through all its steps: the completion was
\* answered 200 and the auto-advance is scheduled
C24_Witness ==
    /\ advance > 0
    /\ okDone # {}
    /\ \A a \in acts : a.fn # "completeTask"


\* C25: the auto-advance is scheduled when the completion of a task T < N has
\* gone through, and not for T = N; when its delay has passed, the client
\* switches to T + 1 for a task T whose completion was answered 200, whatever
\* happened in between.
C25_AdvanceToNext ==
    [][/\ \A a \in Resumed :
            (a.fn = "completeTask" /\ a.pc = "progress") =>
                (advance' > advance <=> (Answered200(a) /\ a.taskId < TotalTasks))
       /\ AdvanceFires => \E k \in okDone : currentTask' = k[2] + 1]_vars


\* the call a is resumed by a failure (another status than 200, or the fetch
\* failing) and the failure is ignored: nothing is shown and the call goes on
\* as it does after a 200
Ignored(a) ==
    /\ ~Answered200(a)
    /\ CASE a.pc = "lastTask" -> TRUE
         [] a.pc = "text" -> \E b \in acts' : b.rid = a.rid /\ b.pc = "lastTask"
         [] a.pc = "save" -> saveStatus' # "error"
         [] a.pc = "complete" -> \E b \in acts' : b.rid = a.rid /\ b.pc = "progress"
         [] a.pc = "progress" -> IF a.fn = "handleAuth" THEN screen' = "course"
                                                          ELSE advance' > advance
         [] OTHER -> \E b \in acts' : b.rid = a.rid /\ b.pc = "progress"

\* C26: a switch to a task makes it the active task and requests its draft;
\* the answer to the update of the last task, whatever it is, ends the switch
\* and changes nothing on the page; and the update of the last task is the
\* only call of the client whose failure is ignored.
C26_SwitchIgnoresLastTask ==
    [][/\ \A t \in ClickTasks :
            ClickTask(t) =>
                /\ currentTask' = t
                /\ \E r \in Issued : r.op = "getText" /\ r.taskId = t
       /\ \A a \in Resumed :
            a.pc = "lastTask" =>
                /\ UNCHANGED pageVars
                /\ \A b \in acts' : b.rid # a.rid
                /\ Issued = {}
       /\ \A a \in Resumed : Ignored(a) => a.pc = "lastTask"]_vars


\* the answer that resumes the suspended call a in this step is a 401
Answered401(a) ==
    /\ faults' = faults
    /\ \E m \in resps \ resps' : m.rid = a.rid /\ m.res.status = 401

\* C27: whenever a call of the client (progress load, draft load, draft save,
\* last-task update, complete) is answered 401, the client removes the stored
\* token and shows the welcome screen.
C27_AuthErrorSignsOut ==
    [][\A a \in Resumed :
            Answered401(a) =>
                /\ mooc_token' = NullToken
                /\ screen' = "welcome"]_vars


\* the answer that resumes the suspended call a in this step has this status
AnsweredWith(a, status) ==
    /\ faults' = faults
    /\ \E m \in resps \ resps' : m.rid = a.rid /\ m.res.status = status

\* the token and the last task of the 200 that resumes a in this step
AuthAnswer(a) == CHOOSE m \in resps \ resps' : m.rid = a.rid

\* C28: the sign-in form sends no request for a username shorter than 3
\* characters and a login request, and nothing else, otherwise; a register
\* request is sent only by the step that resumes the login with a 404; the
\* 200 to either request stores its token, and the progress load that follows
\* shows the course at the learner's last task.
C28_SignInFlow ==
    [][/\ \A n \in FormNames :
            HandleAuth(n) =>
                IF Len(n) < 3
                THEN Issued = {}
                ELSE \E r \in Issued : r.op = "login" /\ r.username = n /\ Issued = {r}
       /\ \A r \in Issued :
            r.op = "register" =>
                \E a \in Resumed : a.pc = "login" /\ a.rid = r.rid /\ AnsweredWith(a, 404)
       /\ \A a \in Resumed :
            (a.pc \in {"login", "register"} /\ Answered200(a)) =>
                mooc_token' = AuthAnswer(a).res.body.token
       /\ \A a \in Resumed :
            (a.fn = "handleAuth" /\ a.pc = "progress" /\ Answered200(a)) =>
                /\ screen' = "course"
                /\ currentTask' = AuthAnswer(a).res.body.lastTask]_vars


\* C29: while the course is shown, the ratio displayed is the number of
\* completed entries of the progress the client holds over N, the number of
\* tasks of the course, and lies between 0 and 1.
C29_DisplayedRatio ==
    screen = "course" =>
        /\ progressFill[1] =
              Cardinality({i \in DOMAIN currentUser.progress : currentUser.progress[i].completed})
        /\ progressFill[2] = TotalTasks
        /\ 0 <= progressFill[1]
        /\ progressFill[1] <= progressFill[2]


\* C30: every saveDraft request carries, under the id of task T, text of T:
\* the text in the editor when the request is issued was loaded from T's
\* draft or typed while T was the active task (or is the text of the page as
\* served, which no task owns).
C30_TextOfItsTask ==
    [][\A r \in Issued : r.op = "saveText" => origin \in {0, r.taskId}]_vars


-----------------------------------------------------------------------------
(* Claims about the complete action, the logout and the navigation, checked *)
(* under SpecClient *)

\* the forced save whose answer lets completeTask go on to the request r
ForcedSaveOf(r) ==
    {a \in Resumed : a.fn = "saveCurrentText" /\ a.inComplete /\ a.rid = r.rid}

\* C31: the task a complete action marks completed is the task that was
\* active when the button was clicked, which is the task its forced save
\* wrote the draft of, whatever happened to the active task while that save
\* was in flight.
C31_CompletesTaskSaved ==
    [][\A r \in Issued :
            r.op = "complete" =>
                /\ ForcedSaveOf(r) # {}
                /\ \A a \in ForcedSaveOf(r) : r.taskId = a.taskId]_vars

\* C32: the complete request is sent only when the forced save was answered
\* 200; when that save fails, no complete request is sent.
C32_CompleteOnlyAfterSaved ==
    [][\A r \in Issued :
            r.op = "complete" =>
                /\ ForcedSaveOf(r) # {}
                /\ \A a \in ForcedSaveOf(r) : Answered200(a)]_vars


\* the client is signed out: no token is stored
SignedOut == mooc_token = NullToken

\* C33: the logout sets the active task to 1, and from then on, in every step
\* that leaves the client signed out (any step but the one in which a sign-in
\* succeeds), the client issues no protected request (the only requests it
\* issues are the login and the register of the sign-in form) and the active
\* task stays as it is.
C33_QuietAfterLogout ==
    [][/\ Logout => (SignedOut' /\ currentTask' = 1)
       /\ (SignedOut /\ SignedOut') =>
            /\ \A r \in Issued : r.op \in {"login", "register"}
            /\ currentTask' = currentTask]_vars


\* the client has only signed in and switched tasks, nothing was typed or
\* saved, every draft load, last-task update and progress load was answered
\* 200, and nothing is outstanding
SwitchesResolved ==
    /\ screen = "course"
    /\ Quiescent
    /\ lastIssued = {}
    /\ ~refused

\* C34: once every request of a sequence of task switches and progress loads
\* has resolved with a 200, the last task stored for the learner is the
\* active task, and the editor holds the text loaded for the active task,
\* which is its stored draft.
C34_SwitchesConverge ==
    SwitchesResolved =>
        \A u \in users :
            u.username = currentUser.username =>
                /\ u.last_task = currentTask
                /\ origin = currentTask
                /\ editor = LoadDraft(u.id, currentTask)


-----------------------------------------------------------------------------
(* Claims about the frame of the store's operations, checked under Spec *)

\* the draft loadDraft answers for (userId, taskId) from the rows txt
DraftIn(txt, userId, taskId) ==
    LET ids == {i \in 1..Len(txt) : txt[i].user_id = userId /\ txt[i].task_id = taskId}
    IN IF ids = {} THEN "" ELSE txt[MinOf(ids)].content

\* the rows of txt that belong to another pair than (userId, taskId)
OtherRows(txt, userId, taskId) ==
    LET Other(r) == r.user_id # userId \/ r.task_id # taskId
    IN SelectSeq(txt, Other)

\* C35: each write changes only its target.  saveDraft(L, T, x) leaves the
\* learners with their last tasks, every progress entry and the draft of
\* every other pair as they are; completeTask(L, T) leaves the learners, all
\* drafts and every other progress entry as they are; setLastTask(L, t)
\* leaves all drafts, all progress entries and the other learners as they
\* are, and its own learner's id and name; loadDraft, getProgress and login
\* change nothing.  L is the learner of any valid credential; this holds
\* whether the statement succeeds or fails (a call that leaves a table as it
\* is leaves every row of it as it is).
C35_FrameEffects ==
    /\ \A h \in ValidHeaders, t \in TaskParams, c \in Contents, ok \in BOOLEAN :
          LET out == PostText(h, t, c, ok)
          IN /\ out.users = users
             /\ out.progress = progress
             /\ \/ out.texts = texts
                \/ /\ OtherRows(out.texts, verifyToken(h), t) = OtherRows(texts, verifyToken(h), t)
                   /\ \A u \in UserIds, t2 \in TaskParams :
                         (u # verifyToken(h) \/ t2 # t) =>
                              DraftIn(out.texts, u, t2) = DraftIn(texts, u, t2)
    /\ \A h \in ValidHeaders, t \in TaskParams, ok \in BOOLEAN :
          LET out == PostComplete(h, t, ok)
          IN /\ out.users = users
             /\ out.texts = texts
             /\ \/ out.progress = progress
                \/ {p \in out.progress : p.user_id # verifyToken(h) \/ p.task_id # t} =
                      {p \in progress : p.user_id # verifyToken(h) \/ p.task_id # t}
    /\ \A h \in ValidHeaders, t \in BodyTaskIds, ok \in BOOLEAN :
          LET out == PostLastTask(h, t, ok)
          IN /\ out.texts = texts
             /\ out.progress = progress
             /\ \/ out.users = users
                \/ /\ {u \in out.users : u.id # verifyToken(h)} =
                         {u \in users : u.id # verifyToken(h)}
                   /\ {<<u.id, u.username>> : u \in out.users} =
                         {<<u.id, u.username>> : u \in users}
    /\ \A h \in ValidHeaders, t \in TaskParams, ok \in BOOLEAN : Untouched(GetText(h, t, ok))
    /\ \A h \in ValidHeaders, ok1, ok2 \in BOOLEAN : Untouched(GetProgress(h, ok1, ok2))
    /\ \A n \in UserNames, ok \in BOOLEAN : Untouched(PostLogin(n, ok))

\* two learners, each with a last task that was set, a draft that was saved
\* and a task that was completed: every write has acted next to rows of
\* another learner and of another task
C35_Witness ==
    /\ Cardinality(users) = 2
    /\ \A u \in users :
          /\ u.last_task # 1
          /\ \E k \in okSaved : k[1] = u.id
          /\ \E k \in okDone : k[1] = u.id

-----------------------------------------------------------------------------
(* The client started on the database of an earlier run *)

\* the task the learner of the earlier run stopped at
StoredLastTask == TotalTasks - 1

\* the server opens the database file of an earlier run (new
\* sqlite3.Database; CREATE TABLE IF NOT EXISTS keeps the rows): learner
\* alice is registered and her last_task is the task before the last one
InitLate ==
    /\ users = {[id |-> 1, username |-> "alice", last_task |-> StoredLastTask]}
    /\ texts = <<>>
    /\ progress = {}
    /\ okSaved = {}
    /\ okDone = {}
    /\ trespass = FALSE
    /\ registered = {<<"alice", 1>>}
    /\ InitClient

SpecLate == InitLate /\ [][NextClient]_vars

\* C36: in every reachable state of the client the active task is a task of
\* the client's task list (ids 1..19), so a description exists for it: after
\* the sign-in at the stored lastTask and after every auto-advance up to the
\* last task.
C36_ActiveTaskListed == currentTask \in 1..TotalTasks

=============================================================================
